---- MODULE Spec2Model ----
(***************************************************************************)
(* The asset organizer of tools/organize_assets.py as a state machine.     *)
(*                                                                         *)
(* File names and relative paths are strings; the string operations the    *)
(* code relies on (lower(), "in", startswith, pathlib's suffix and stem,   *)
(* f-string formatting of the collision counter, sorted()) are computed    *)
(* character by character.  A file's content is a sequence of bytes.       *)
(***************************************************************************)
EXTENDS Integers, Sequences, FiniteSets, TLC

(***************************************************************************)
(* Bounds of the model.                                                    *)
(***************************************************************************)
\* Largest size of the world before the first run: the files of the input
\* directory, the files of the output tree and the entries of the manifest
\* file, counted together.
MaxObjects == 3
\* Number of runs of the organizer in one behaviour.
MaxRuns == 2

(***************************************************************************)
(* Strings.                                                                *)
(***************************************************************************)
Char(s, i) == SubSeq(s, i, i)

UpperChars == "ABCDEFGHIJKLMNOPQRSTUVWXYZ"
LowerChars == "abcdefghijklmnopqrstuvwxyz"
\* The characters of the model's names, in code-point order.
AsciiOrder == "-./0123456789ABCDEFGHIJKLMNOPQRSTUVWXYZ_abcdefghijklmnopqrstuvwxyz"
DigitChars == "0123456789"

CharSet == {Char(AsciiOrder, i) : i \in 1..Len(AsciiOrder)}

\* ord(c), up to the gaps between the characters of AsciiOrder
OrdTable == [c \in CharSet |-> CHOOSE i \in 1..Len(AsciiOrder) : Char(AsciiOrder, i) = c]

Ord(c) == OrdTable[c]

LowerTable ==
    [c \in CharSet |->
        IF \E i \in 1..Len(UpperChars) : Char(UpperChars, i) = c
        THEN Char(LowerChars, CHOOSE i \in 1..Len(UpperChars) : Char(UpperChars, i) = c)
        ELSE c]

LowerChar(c) == LowerTable[c]

\* str.lower()
RECURSIVE Lower(_)
Lower(s) == IF Len(s) = 0 THEN "" ELSE LowerChar(Head(s)) \o Lower(Tail(s))

\* pat in s
Contains(s, pat) ==
    \E i \in 1..(Len(s) - Len(pat) + 1) : SubSeq(s, i, i + Len(pat) - 1) = pat

\* s.startswith(p)
StartsWith(s, p) == Len(s) >= Len(p) /\ SubSeq(s, 1, Len(p)) = p

\* s.rfind(c) + 1: the last position of character c in s, 0 when absent.
RFind(s, c) ==
    LET hits == {i \in 1..Len(s) : Char(s, i) = c}
    IN  IF hits = {} THEN 0 ELSE CHOOSE i \in hits : \A j \in hits : j <= i

\* PurePath.suffix: from the last dot on, unless that dot starts or ends the name.
Suffix(name) ==
    LET i == RFind(name, ".")
    IN  IF 1 < i /\ i < Len(name) THEN SubSeq(name, i, Len(name)) ELSE ""

\* PurePath.stem
Stem(name) ==
    LET i == RFind(name, ".")
    IN  IF 1 < i /\ i < Len(name) THEN SubSeq(name, 1, i - 1) ELSE name

\* str(n) for n >= 0
RECURSIVE Decimal(_)
Decimal(n) ==
    IF n < 10 THEN Char(DigitChars, n + 1)
    ELSE Decimal(n \div 10) \o Char(DigitChars, (n % 10) + 1)

\* a < b on strings (code-point lexicographic order)
RECURSIVE StrLess(_, _)
StrLess(a, b) ==
    IF Len(b) = 0 THEN FALSE
    ELSE IF Len(a) = 0 THEN TRUE
    ELSE IF Head(a) = Head(b) THEN StrLess(Tail(a), Tail(b))
    ELSE Ord(Head(a)) < Ord(Head(b))

\* Faulty variant: the files are taken in descending order.
RECURSIVE Sorted_Descending(_)
Sorted_Descending(S) ==
    IF S = {} THEN <<>>
    ELSE LET m == CHOOSE x \in S : \A y \in S \ {x} : StrLess(y, x)
         IN  <<m>> \o Sorted_Descending(S \ {m})

\* sorted(files): the names of S in ascending order
RECURSIVE Sorted(_)
Sorted(S) ==
    IF S = {} THEN <<>>
    ELSE LET m == CHOOSE x \in S : \A y \in S \ {x} : StrLess(x, y)
         IN  <<m>> \o Sorted(S \ {m})

(***************************************************************************)
(* Categorizer.                                                            *)
(***************************************************************************)
Categories ==
    {"hero", "images", "icons", "video", "audio", "documents", "fonts",
     "design", "brand", "misc"}

\* extension -> category, in table order
CATEGORY_MAPPINGS ==
    << <<".gif", "hero">>,
       <<".png", "images">>, <<".jpg", "images">>, <<".jpeg", "images">>,
       <<".webp", "images">>,
       <<".svg", "icons">>, <<".ico", "icons">>,
       <<".mp4", "video">>, <<".mov", "video">>, <<".avi", "video">>,
       <<".webm", "video">>, <<".mkv", "video">>,
       <<".mp3", "audio">>, <<".wav", "audio">>, <<".m4a", "audio">>,
       <<".ogg", "audio">>,
       <<".pdf", "documents">>, <<".txt", "documents">>, <<".md", "documents">>,
       <<".ttf", "fonts">>, <<".otf", "fonts">>, <<".woff", "fonts">>,
       <<".woff2", "fonts">>,
       <<".psd", "design">>, <<".ai", "design">>, <<".sketch", "design">>,
       <<".fig", "design">> >>

\* name pattern -> category, in table order
SPECIAL_FILES ==
    << <<"afromations_flag_pick.gif", "hero">>,
       <<"logo", "brand">>,
       <<"favicon", "brand">> >>

\* dict.get(key, default) on a table of <<key, value>> pairs with distinct keys
DictGet(table, key, default) ==
    IF \E i \in 1..Len(table) : table[i][1] = key
    THEN table[CHOOSE i \in 1..Len(table) : table[i][1] = key][2]
    ELSE default

\* The loop over SPECIAL_FILES.items() from entry i on: the category of the
\* first pattern found in filename, "" when the loop ends without a return.
RECURSIVE SpecialFrom(_, _)
SpecialFrom(filename, i) ==
    IF i > Len(SPECIAL_FILES) THEN ""
    ELSE IF Contains(filename, SPECIAL_FILES[i][1]) THEN SPECIAL_FILES[i][2]
    ELSE SpecialFrom(filename, i + 1)

\* Faulty variant: the extension table is consulted before the name patterns.
get_category_ExtensionFirst(name) ==
    LET byExtension == DictGet(CATEGORY_MAPPINGS, Lower(Suffix(name)), "")
        special == SpecialFrom(Lower(name), 1)
    IN  IF byExtension # "" THEN byExtension
        ELSE IF special # "" THEN special
        ELSE "misc"

get_category(name) ==
    LET filename  == Lower(name)
        extension == Lower(Suffix(name))
        special   == SpecialFrom(filename, 1)
    IN  IF special # "" THEN special
        ELSE DictGet(CATEGORY_MAPPINGS, extension, "misc")

(***************************************************************************)
(* The world: the file system the organizer runs against, the process,     *)
(* and history variables that record what a run started from.              *)
(***************************************************************************)
VARIABLES
    istatus,    \* the --input path: "missing", "file" (exists, not a directory) or "dir"
    input,      \* the regular files of the input directory: name -> content
    disk,       \* the files under the output directory: relative path -> content
    dirs,       \* the directories under the output directory ("" is the output directory itself)
    mfile,      \* the manifest file: [kind: "absent" | "garbage" | "json", doc,
                \*   parent: whether the file's parent directory exists]
    run,        \* number of runs started; it also stands for the UTC clock
    pc,         \* position of main(): "idle", "validate", "load", "list", "process", "save", "checklist", "done"
    dry_run,    \* args.dry_run
    manifest,   \* the in-memory manifest document
    files,      \* sorted(files)
    idx,        \* position of the for loop in files
    organized,
    skipped,
    out,        \* what the run has printed, in order
    exitcode,   \* exit status of the run once pc = "done"
    input0,     \* history: input at the start of the run
    disk0,      \* history: disk at the start of the run
    dirs0,      \* history: dirs at the start of the run
    mfile0,     \* history: mfile at the start of the run
    loaded,     \* history: the document load_manifest returned
    loads,      \* history: calls of load_manifest in the run
    saves,      \* history: calls of save_manifest in the run
    prev,       \* history: how the previous run ended, when the input was restored after it
    lost,       \* history: the files the last run had moved and not saved when it was killed
    other,      \* a second organizer process on the same directories
    last,       \* history: what the dry run printed and counted that this run was started after
    seg,        \* the clipping application: one call of get_relevant_segments
    web,        \* the web scaffold: its registries, its clock and the last response
    cname,      \* categorizer check: the file name given
    cresult     \* categorizer check: the category returned, "" before the call

vars ==
    <<istatus, input, disk, dirs, mfile, run, pc, dry_run, manifest,
      files, idx, organized, skipped, out, exitcode, input0, disk0, dirs0,
      mfile0, loaded, loads, saves, prev, lost, other, last, seg, web,
      cname, cresult>>

fsVars == <<istatus, input, disk, dirs, mfile>>
histVars == <<input0, disk0, dirs0, mfile0>>
catVars == <<cname, cresult>>
envVars == <<lost, other>>
appVars == <<seg, web>>

(***************************************************************************)
(* Inputs of the model.                                                    *)
(***************************************************************************)
\* File names that can be dropped into the input directory.
Names == {"a.png", "a_1.png", "README.md", ".gitkeep", "afromations_flag_pick.gif"}

\* File contents (byte strings).
Contents == {<<1>>, <<2, 2>>}

\* Contents that PIL decodes as a raster image, with their dimensions.
DecodableImages == {<<1>>}

\* Paths of the output tree that can hold a file, or have a manifest entry,
\* before the first run.
PrePaths == {"images/a.png", "images/a_1.png", "hero/afromations_flag_pick.gif"}

\* The functions from at most k elements of D into R.
PartialFns(D, R, k) ==
    UNION {[S -> R] : S \in {T \in SUBSET D : Cardinality(T) <= k}}

\* Path.parent of a relative path, "" for a path of one component.
Parent(path) ==
    LET i == RFind(path, "/")
    IN  IF i = 0 THEN "" ELSE SubSeq(path, 1, i - 1)

\* Path.name of a relative path.
Basename(path) == SubSeq(path, RFind(path, "/") + 1, Len(path))

(***************************************************************************)
(* Hasher, MIME type, image dimensions.                                    *)
(***************************************************************************)
\* hashlib.sha256 over the file's bytes, as a hex digest: equal contents give
\* equal digests and distinct contents distinct digests.
compute_hash(content) == <<"hexdigest", content>>

\* f"sha256:{content_hash}"
TaggedHash(digest) == <<"sha256:", digest>>

\* mimetypes.guess_type by extension (the entries of types_map the model uses).
MimeTypes ==
    << <<".png", "image/png">>, <<".gif", "image/gif">>,
       <<".jpg", "image/jpeg">>, <<".jpeg", "image/jpeg">>,
       <<".svg", "image/svg+xml">>, <<".mp4", "video/mp4">>,
       <<".md", "text/markdown">>, <<".txt", "text/plain">>,
       <<".pdf", "application/pdf">> >>

get_mime_type(path) ==
    LET mime_type == DictGet(MimeTypes, Lower(Suffix(Basename(path))), "")
    IN  IF mime_type # "" THEN mime_type ELSE "application/octet-stream"

\* {"width": w, "height": h} as <<w, h>>, None as <<>>.
get_image_dimensions(content) ==
    IF content \in DecodableImages THEN <<content[1], content[1]>> ELSE <<>>

(***************************************************************************)
(* Manifest store.                                                         *)
(***************************************************************************)
\* Timestamps are run numbers; None is -1 and 0 is a time before the first run.
NoAssets == [p \in {} |-> <<>>]

NewManifest == [version |-> "1.0", generated_at |-> -1, assets |-> NoAssets]

AssetInfo(name, content, path, category, now) ==
    [original_name |-> name,
     content_hash  |-> TaggedHash(compute_hash(content)),
     size_bytes    |-> Len(content),
     mime_type     |-> get_mime_type(path),
     category      |-> category,
     uploaded_at   |-> now,
     dimensions    |-> get_image_dimensions(content)]

\* Faulty variant: a file that is not well-formed is taken for no file.
Parses_Always(f) == TRUE

\* Whether json.load(f) returns (it raises on a file that is not well-formed).
Parses(f) == f.kind # "garbage"

\* load_manifest when nothing is raised: the parsed document, or a fresh one
\* when no file exists.
load_manifest(f) == IF f.kind = "json" THEN f.doc ELSE NewManifest

\* save_manifest's effect on the document: generated_at is set.
Stamped(doc, now) == [doc EXCEPT !.generated_at = now]

\* The file save_manifest leaves: the parent directory exists, and json.dump
\* has written the whole document, replacing what was there.
\* (str keys, str and int values and nested objects survive dump and load.)
Dumped(doc) == [kind |-> "json", doc |-> doc, parent |-> TRUE]

(***************************************************************************)
(* organize_asset, step by step.                                           *)
(***************************************************************************)
\* Faulty variant: only the leading dot is looked at.
IsSystemFile_HiddenOnly(name) == StartsWith(name, ".")

\* file_path.name.startswith(".") or file_path.name in ["README.md", ".gitkeep"]
IsSystemFile(name) == StartsWith(name, ".") \/ name \in {"README.md", ".gitkeep"}

\* Faulty variant: the duplicate check finds nothing.
Duplicates_None(doc, h) == {}

\* The manifest entries whose content_hash equals the tagged digest h.
Duplicates(doc, h) ==
    {p \in DOMAIN doc.assets : doc.assets[p].content_hash = h}

RelativePath(category, name) == category \o "/" \o name

\* The while loop of the collision handling, entered with counter.
RECURSIVE ResolveFrom(_, _, _, _)
ResolveFrom(name, category, d, counter) ==
    LET new_name == Stem(name) \o "_" \o Decimal(counter) \o Suffix(name)
        relative_path == RelativePath(category, new_name)
    IN  IF relative_path \in DOMAIN d
        THEN ResolveFrom(name, category, d, counter + 1)
        ELSE relative_path

\* Faulty variant: no collision handling, the candidate path is used as it is.
Destination_NoCollisionCheck(name, d) == RelativePath(get_category(name), name)

\* Faulty variant: the collision counter starts at 2.
Destination_CounterFromTwo(name, d) ==
    LET category == get_category(name)
        relative_path == RelativePath(category, name)
    IN  IF relative_path \in DOMAIN d
        THEN ResolveFrom(name, category, d, 2)
        ELSE relative_path

\* The relative path organize_asset settles on for a file called name when
\* the output tree holds the files of d.
Destination(name, d) ==
    LET category == get_category(name)
        relative_path == RelativePath(category, name)
    IN  IF relative_path \in DOMAIN d
        THEN ResolveFrom(name, category, d, 1)
        ELSE relative_path

\* Faulty variant: the record is not stored.
Inserted_Nothing(doc, relative_path, asset_info) == doc

\* Faulty variant: the record is stored under category/original name, not
\* under the path the collision handling settled on.
Inserted_UnderCandidate(doc, relative_path, asset_info) ==
    LET key == asset_info.category \o "/" \o asset_info.original_name
    IN  [doc EXCEPT !.assets =
            [p \in DOMAIN doc.assets \cup {key} |->
                IF p = key THEN asset_info ELSE doc.assets[p]]]

\* manifest["assets"][relative_path] = asset_info
Inserted(doc, relative_path, asset_info) ==
    [doc EXCEPT !.assets =
        [p \in DOMAIN doc.assets \cup {relative_path} |->
            IF p = relative_path THEN asset_info ELSE doc.assets[p]]]

\* dest_dir.mkdir(parents=True, exist_ok=True)
MadeDirs(ds, category) == ds \cup {"", category}

\* Faulty variant: the file is copied, and stays in the input directory.
MovedOut_Copied(inp, name) == inp

\* shutil.move: the file leaves the input directory ...
MovedOut(inp, name) == [n \in DOMAIN inp \ {name} |-> inp[n]]

\* ... and is at the destination afterwards.
MovedIn(d, relative_path, content) ==
    [p \in DOMAIN d \cup {relative_path} |->
        IF p = relative_path THEN content ELSE d[p]]

\* A printed line.
Ev(kind, name, path) == [kind |-> kind, name |-> name, path |-> path]

(***************************************************************************)
(* Initial states: a file system left by earlier use, no run started.      *)
(***************************************************************************)
\* A document saved by an earlier run: one record per key, as organize_asset
\* builds it for a file named like the key's last component.
PreDocument(hashes) ==
    [version |-> "1.0", generated_at |-> 0,
     assets |-> [p \in DOMAIN hashes |->
                    AssetInfo(Basename(p), hashes[p], p, Parent(p), 0)]]

\* No manifest file (parent directory present or not), or one that does not parse.
NoFile(kind, parent) == [kind |-> kind, doc |-> NewManifest, parent |-> parent]

NoPrev == [ok |-> FALSE, count |-> 0]

InitWorld ==
    /\ istatus \in {"missing", "file", "dir"}
    /\ input \in PartialFns(Names, Contents, IF istatus = "dir" THEN MaxObjects ELSE 0)
    /\ disk \in PartialFns(PrePaths, Contents, MaxObjects - Cardinality(DOMAIN input))
    /\ dirs = UNION {{"", Parent(p)} : p \in DOMAIN disk}
    /\ mfile \in {NoFile("absent", FALSE), NoFile("garbage", TRUE)}
                 \cup {Dumped(PreDocument(h)) :
                         h \in PartialFns(PrePaths, Contents,
                                          MaxObjects - Cardinality(DOMAIN input)
                                                     - Cardinality(DOMAIN disk))}

\* The second organizer process before it is started: its position, its
\* locals, and how its load and its save fell among those of the first
\* process (early: it loaded before the first process had saved; saved: it
\* has written the manifest file; seenloads, seensaves: the first process's
\* loads and saves at that moment).
NoOther ==
    [pc |-> "off", manifest |-> NewManifest, files |-> <<>>, idx |-> 0,
     organized |-> 0, moved |-> {}, early |-> FALSE, saved |-> FALSE,
     seenloads |-> 0, seensaves |-> 0]

\* The run was not started as the real run after a dry run.
NoLast == [dry |-> FALSE, out |-> <<>>, organized |-> 0, skipped |-> 0]

\* get_relevant_segments has not been called.
NoCall ==
    [pc |-> "off", key |-> "", transcript |-> <<>>, outcome |-> "", reply |-> <<>>,
     result |-> <<>>, stubbed |-> FALSE, raised |-> FALSE]

\* The web scaffold when the module has been imported: lines 73-75.
NoWeb ==
    [sessions |-> {}, invites |-> [i \in {} |-> <<>>], users |-> {},
     clock |-> 0, response |-> <<>>]

InitProcess ==
    /\ run = 0
    /\ pc = "idle"
    /\ dry_run = FALSE
    /\ manifest = NewManifest
    /\ files = <<>>
    /\ idx = 0
    /\ organized = 0
    /\ skipped = 0
    /\ out = <<>>
    /\ exitcode = 0
    /\ input0 = input
    /\ disk0 = disk
    /\ dirs0 = dirs
    /\ mfile0 = mfile
    /\ loaded = NewManifest
    /\ loads = 0
    /\ saves = 0
    /\ prev = NoPrev
    /\ lost = {}
    /\ other = NoOther
    /\ last = NoLast
    /\ seg = NoCall
    /\ web = NoWeb

Init ==
    /\ InitWorld
    /\ InitProcess
    /\ cname = ""
    /\ cresult = ""

(***************************************************************************)
(* main(), one action per step.                                            *)
(***************************************************************************)
\* The organizer is started, with or without --dry-run: for the first time,
\* after the input set was put back, or on what the last run left in the
\* input directory.
StartRun ==
    /\ pc \in {"idle", "done"}
    /\ run < MaxRuns
    /\ run' = run + 1
    /\ dry_run' \in BOOLEAN
    /\ pc' = "validate"
    /\ manifest' = NewManifest
    /\ files' = <<>>
    /\ idx' = 0
    /\ organized' = 0
    /\ skipped' = 0
    /\ out' = <<>>
    /\ exitcode' = 0
    /\ input0' = input
    /\ disk0' = disk
    /\ dirs0' = dirs
    /\ mfile0' = mfile
    /\ loaded' = NewManifest
    /\ loads' = 0
    /\ saves' = 0
    /\ prev' = IF pc = "idle" THEN prev ELSE NoPrev
    /\ lost' = IF pc = "idle" THEN lost ELSE {}
    /\ last' = NoLast
    /\ UNCHANGED <<fsVars, catVars, appVars, other>>

\* Faulty variant: the input path is not looked at.
Validate_NoCheck ==
    /\ pc = "validate"
    /\ pc' = "load"
    /\ UNCHANGED <<fsVars, histVars, catVars, appVars, last, envVars, run, dry_run, manifest, files, idx,
                   organized, skipped, out, exitcode, loaded, loads, saves, prev>>

\* Validate input directory: sys.exit(1) when it is missing or no directory.
Validate ==
    /\ pc = "validate"
    /\ IF istatus = "missing"
       THEN /\ out' = Append(out, Ev("error_missing", "", ""))
            /\ exitcode' = 1
            /\ pc' = "done"
       ELSE IF istatus # "dir"
       THEN /\ out' = Append(out, Ev("error_not_dir", "", ""))
            /\ exitcode' = 1
            /\ pc' = "done"
       ELSE /\ pc' = "load"
            /\ UNCHANGED <<out, exitcode>>
    /\ UNCHANGED <<fsVars, histVars, catVars, appVars, last, envVars, run, dry_run, manifest, files, idx,
                   organized, skipped, loaded, loads, saves, prev>>

\* manifest = load_manifest(args.manifest).  json.load raises on a file that
\* does not parse; nothing catches it, so the interpreter prints a traceback
\* and exits with status 1.
LoadManifest ==
    /\ pc = "load"
    /\ loads' = loads + 1
    /\ IF ~Parses(mfile)
       THEN /\ out' = Append(out, Ev("traceback", "", ""))
            /\ exitcode' = 1
            /\ pc' = "done"
            /\ UNCHANGED <<manifest, loaded>>
       ELSE /\ manifest' = load_manifest(mfile)
            /\ loaded' = load_manifest(mfile)
            /\ pc' = "list"
            /\ UNCHANGED <<out, exitcode>>
    /\ UNCHANGED <<fsVars, histVars, catVars, appVars, last, envVars, run, dry_run, files, idx,
                   organized, skipped, saves, prev>>

\* Faulty variant: no early return on an empty input directory.
NoFilesFound_Never(inp) == FALSE

\* if not files
NoFilesFound(inp) == DOMAIN inp = {}

\* files = [f for f in args.input.iterdir() if f.is_file()]; return when empty,
\* else the header lines and organized = skipped = 0.
ListFiles ==
    /\ pc = "list"
    /\ files' = Sorted(DOMAIN input)
    /\ IF NoFilesFound(input)
       THEN /\ out' = Append(out, Ev("no_files", "", ""))
            /\ exitcode' = 0
            /\ pc' = "done"
            /\ idx' = idx
       ELSE /\ out' = out \o <<Ev("found", Decimal(Cardinality(DOMAIN input)), "")>>
                          \o (IF dry_run THEN <<Ev("dry_run_banner", "", "")>> ELSE <<>>)
            /\ exitcode' = exitcode
            /\ pc' = "process"
            /\ idx' = 1
    /\ organized' = 0
    /\ skipped' = 0
    /\ UNCHANGED <<fsVars, histVars, catVars, appVars, last, envVars, run, dry_run, manifest, loaded,
                   loads, saves, prev>>

\* One iteration of the for loop: organize_asset(file_path, ...) and the count
\* of its result.  compute_hash opens the file: when another process has
\* taken it away since the directory was listed, open raises, nothing
\* catches it, and the interpreter exits with a traceback and status 1.
ProcessFile ==
    /\ pc = "process"
    /\ idx <= Len(files)
    /\ LET name == files[idx]
           content == input[name]
           content_hash == compute_hash(content)
           dups == Duplicates(manifest, TaggedHash(content_hash))
           category == get_category(name)
           relative_path == Destination(name, disk)
       IN  IF IsSystemFile(name)
           THEN /\ out' = Append(out, Ev("skip_system", name, ""))
                /\ skipped' = skipped + 1
                /\ UNCHANGED <<organized, input, disk, dirs, manifest, pc, exitcode>>
           ELSE IF name \notin DOMAIN input
           THEN /\ out' = Append(out, Ev("traceback", "", ""))
                /\ exitcode' = 1
                /\ pc' = "done"
                /\ UNCHANGED <<organized, skipped, input, disk, dirs, manifest>>
           ELSE IF dups # {}
           THEN \* the first matching entry in the dict's order, which the model does not fix
                /\ \E asset_path \in dups : out' = Append(out, Ev("skip_duplicate", name, asset_path))
                /\ skipped' = skipped + 1
                /\ UNCHANGED <<organized, input, disk, dirs, manifest, pc, exitcode>>
           ELSE IF dry_run
           THEN /\ out' = Append(out, Ev("would_move", name, relative_path))
                /\ organized' = organized + 1
                /\ UNCHANGED <<skipped, input, disk, dirs, manifest, pc, exitcode>>
           ELSE /\ dirs' = MadeDirs(dirs, category)
                /\ input' = MovedOut(input, name)
                /\ disk' = MovedIn(disk, relative_path, content)
                /\ out' = Append(out, Ev("moved", name, relative_path))
                /\ manifest' = Inserted(manifest, relative_path,
                                        AssetInfo(name, content, relative_path, category, run))
                /\ organized' = organized + 1
                /\ UNCHANGED <<skipped, pc, exitcode>>
    /\ idx' = IF ~IsSystemFile(files[idx]) /\ files[idx] \notin DOMAIN input
              THEN idx ELSE idx + 1
    /\ UNCHANGED <<istatus, mfile, histVars, catVars, appVars, last, envVars, run, dry_run,
                   files, loaded, loads, saves, prev>>

\* print(f"Summary: {organized} organized, {skipped} skipped")
Summary ==
    /\ pc = "process"
    /\ idx > Len(files)
    /\ out' = Append(out, Ev("summary", Decimal(organized), Decimal(skipped)))
    /\ pc' = "save"
    /\ UNCHANGED <<fsVars, histVars, catVars, appVars, last, envVars, run, dry_run, manifest, files, idx,
                   organized, skipped, exitcode, loaded, loads, saves, prev>>

\* Faulty variant: the manifest is saved in a dry run too.
ShouldSave_IgnoresDryRun(dry, n) == n > 0

\* Faulty variant: the manifest is saved when nothing was organized too.
ShouldSave_IgnoresCount(dry, n) == ~dry

\* if not args.dry_run and organized > 0
ShouldSave(dry, n) == ~dry /\ n > 0

\* Faulty variant: the records of the manifest file being replaced are kept.
SaveManifest_Merging ==
    /\ pc = "save"
    /\ IF ShouldSave(dry_run, organized)
       THEN /\ manifest' = Stamped(manifest, run)
            /\ mfile' = Dumped([Stamped(manifest, run) EXCEPT !.assets =
                            [p \in DOMAIN manifest.assets \cup DOMAIN mfile.doc.assets |->
                                IF p \in DOMAIN manifest.assets
                                THEN manifest.assets[p] ELSE mfile.doc.assets[p]]])
            /\ saves' = saves + 1
            /\ out' = Append(out, Ev("manifest_updated", "", ""))
       ELSE UNCHANGED <<manifest, mfile, saves, out>>
    /\ pc' = "checklist"
    /\ UNCHANGED <<istatus, input, disk, dirs, histVars, catVars, appVars, last, envVars, run, dry_run,
                   files, idx, organized, skipped, exitcode, loaded, loads, prev>>

\* Save manifest (unless dry run)
SaveManifest ==
    /\ pc = "save"
    /\ IF ShouldSave(dry_run, organized)
       THEN /\ manifest' = Stamped(manifest, run)
            /\ mfile' = Dumped(Stamped(manifest, run))
            /\ saves' = saves + 1
            /\ out' = Append(out, Ev("manifest_updated", "", ""))
       ELSE UNCHANGED <<manifest, mfile, saves, out>>
    /\ pc' = "checklist"
    /\ UNCHANGED <<istatus, input, disk, dirs, histVars, catVars, appVars, last, envVars, run, dry_run,
                   files, idx, organized, skipped, exitcode, loaded, loads, prev>>

required_assets == <<"afromations_flag_pick.gif">>

\* Faulty variant: the records' original names are compared, not the keys.
Found_ByOriginalName(doc, asset_name) ==
    \E path \in DOMAIN doc.assets : doc.assets[path].original_name = asset_name

\* any(asset_name in path for path in manifest.get("assets", {}).keys())
Found(doc, asset_name) == \E path \in DOMAIN doc.assets : Contains(path, asset_name)

\* The checklist; main() returns, exit status 0.
Checklist ==
    /\ pc = "checklist"
    /\ out' = out \o [i \in 1..Len(required_assets) |->
                        Ev(IF Found(manifest, required_assets[i]) THEN "FOUND" ELSE "MISSING",
                           required_assets[i], "")]
    /\ exitcode' = 0
    /\ pc' = "done"
    /\ UNCHANGED <<fsVars, histVars, catVars, appVars, last, envVars, run, dry_run, manifest, files, idx,
                   organized, skipped, loaded, loads, saves, prev>>

\* The operator puts the files of the last run's input set back into the
\* input directory (same names, same contents), before running again.
Restore ==
    /\ pc = "done"
    /\ istatus = "dir"
    /\ run < MaxRuns
    /\ input' = input0
    /\ prev' = [ok |-> (~dry_run /\ exitcode = 0),
                count |-> Cardinality(DOMAIN manifest.assets)]
    /\ pc' = "idle"
    /\ UNCHANGED <<istatus, disk, dirs, mfile, histVars, catVars, appVars, last, envVars, run,
                   dry_run, manifest, files, idx, organized, skipped, out,
                   exitcode, loaded, loads, saves>>

Next ==
    \/ StartRun
    \/ Validate
    \/ LoadManifest
    \/ ListFiles
    \/ ProcessFile
    \/ Summary
    \/ SaveManifest
    \/ Checklist
    \/ Restore

Spec == Init /\ [][Next]_vars

(***************************************************************************)
(* Runs that can be killed.  The organizer installs no signal handler and  *)
(* writes the manifest only at the end of main(), so a process killed      *)
(* during the loop leaves the moves it made and nothing else.              *)
(***************************************************************************)
\* The files a run has moved so far, each with the path it went to.
MovedSoFar ==
    {[name |-> out[i].name, path |-> out[i].path] :
        i \in {j \in 1..Len(out) : out[j].kind = "moved"}}

\* The process is killed between two steps of main(): what it holds in memory
\* is gone, the file system stays as it is.
Interrupt ==
    /\ pc \in {"validate", "load", "list", "process", "save", "checklist"}
    /\ pc' = "done"
    /\ exitcode' = 130
    /\ lost' = IF saves = 0 THEN MovedSoFar ELSE {}
    /\ UNCHANGED <<fsVars, histVars, catVars, appVars, last, other, run, dry_run, manifest, files,
                   idx, organized, skipped, out, loaded, loads, saves, prev>>

\* The process is killed inside organize_asset, after mkdir and before the
\* move, or after the move and before the record is put in the manifest.
InterruptOrganize ==
    /\ pc = "process"
    /\ idx <= Len(files)
    /\ ~dry_run
    /\ ~IsSystemFile(files[idx])
    /\ files[idx] \in DOMAIN input
    /\ Duplicates(manifest, TaggedHash(compute_hash(input[files[idx]]))) = {}
    /\ LET name == files[idx]
           relative_path == Destination(name, disk)
       IN  /\ dirs' = MadeDirs(dirs, get_category(name))
           /\ \E moved \in BOOLEAN :
                IF moved
                THEN /\ input' = MovedOut(input, name)
                     /\ disk' = MovedIn(disk, relative_path, input[name])
                     /\ lost' = MovedSoFar \cup {[name |-> name, path |-> relative_path]}
                ELSE /\ lost' = MovedSoFar
                     /\ UNCHANGED <<input, disk>>
    /\ pc' = "done"
    /\ exitcode' = 130
    /\ UNCHANGED <<istatus, mfile, histVars, catVars, appVars, last, other, run, dry_run, manifest,
                   files, idx, organized, skipped, out, loaded, loads, saves, prev>>

NextCrash ==
    \/ Next
    \/ Interrupt
    \/ InterruptOrganize

SpecCrash == Init /\ [][NextCrash]_vars

(***************************************************************************)
(* Two organizer processes on the same input directory, output tree and    *)
(* manifest file.  Nothing in the program locks any of them.  The second   *)
(* process runs main() without --dry-run, one step at a time like the      *)
(* first; what it prints is not kept.                                      *)
(***************************************************************************)
OtherUnchanged ==
    UNCHANGED <<histVars, catVars, appVars, last, lost, run, pc, dry_run, manifest, files, idx,
                organized, skipped, out, exitcode, loaded, loads, saves, prev>>

\* The second process is started and validates the input directory.
OtherStart ==
    /\ other.pc = "off"
    /\ run > 0
    /\ other' = [other EXCEPT !.pc = IF istatus = "dir" THEN "load" ELSE "done"]
    /\ UNCHANGED fsVars
    /\ OtherUnchanged

\* manifest = load_manifest(args.manifest)
OtherLoad ==
    /\ other.pc = "load"
    /\ other' = IF ~Parses(mfile)
                THEN [other EXCEPT !.pc = "done"]
                ELSE [other EXCEPT !.pc = "list",
                                   !.manifest = load_manifest(mfile),
                                   !.early = (saves = 0)]
    /\ UNCHANGED fsVars
    /\ OtherUnchanged

\* files = [f for f in args.input.iterdir() if f.is_file()]
OtherList ==
    /\ other.pc = "list"
    /\ other' = IF NoFilesFound(input)
                THEN [other EXCEPT !.pc = "done"]
                ELSE [other EXCEPT !.pc = "process",
                                   !.files = Sorted(DOMAIN input),
                                   !.idx = 1]
    /\ UNCHANGED fsVars
    /\ OtherUnchanged

\* One iteration of the second process's for loop.
OtherProcess ==
    /\ other.pc = "process"
    /\ other.idx <= Len(other.files)
    /\ LET name == other.files[other.idx]
           content == input[name]
           dups == Duplicates(other.manifest, TaggedHash(compute_hash(content)))
           category == get_category(name)
           relative_path == Destination(name, disk)
       IN  IF IsSystemFile(name)
           THEN /\ other' = [other EXCEPT !.idx = @ + 1]
                /\ UNCHANGED <<input, disk, dirs>>
           ELSE IF name \notin DOMAIN input
           THEN /\ other' = [other EXCEPT !.pc = "done"]
                /\ UNCHANGED <<input, disk, dirs>>
           ELSE IF dups # {}
           THEN /\ other' = [other EXCEPT !.idx = @ + 1]
                /\ UNCHANGED <<input, disk, dirs>>
           ELSE /\ dirs' = MadeDirs(dirs, category)
                /\ input' = MovedOut(input, name)
                /\ disk' = MovedIn(disk, relative_path, content)
                /\ other' = [other EXCEPT
                                !.idx = @ + 1,
                                !.organized = @ + 1,
                                !.moved = @ \cup {relative_path},
                                !.manifest = Inserted(@, relative_path,
                                    AssetInfo(name, content, relative_path, category, run))]
    /\ UNCHANGED <<istatus, mfile>>
    /\ OtherUnchanged

\* After the loop: save_manifest when a file was organized, then the
\* checklist and the end of the process.
OtherSave ==
    /\ other.pc = "process"
    /\ other.idx > Len(other.files)
    /\ IF ShouldSave(FALSE, other.organized)
       THEN /\ mfile' = Dumped(Stamped(other.manifest, run))
            /\ other' = [other EXCEPT !.pc = "done",
                                      !.manifest = Stamped(@, run),
                                      !.saved = TRUE,
                                      !.seenloads = loads,
                                      !.seensaves = saves]
       ELSE /\ other' = [other EXCEPT !.pc = "done"]
            /\ UNCHANGED mfile
    /\ UNCHANGED <<istatus, input, disk, dirs>>
    /\ OtherUnchanged

\* The first process runs once, from the initial state.
FirstStep ==
    \/ pc = "idle" /\ StartRun
    \/ Validate
    \/ LoadManifest
    \/ ListFiles
    \/ ProcessFile
    \/ Summary
    \/ SaveManifest
    \/ Checklist

NextRace ==
    \/ FirstStep
    \/ OtherStart
    \/ OtherLoad
    \/ OtherList
    \/ OtherProcess
    \/ OtherSave

SpecRace == Init /\ [][NextRace]_vars

(***************************************************************************)
(* A dry run as a preview: the operator runs with --dry-run, reads what    *)
(* it printed, and runs again without the flag on the same directories.    *)
(***************************************************************************)
\* The organizer is started without --dry-run right after a dry run that
\* ended normally.
RunForReal ==
    /\ pc = "done"
    /\ dry_run
    /\ exitcode = 0
    /\ run < MaxRuns
    /\ run' = run + 1
    /\ dry_run' = FALSE
    /\ pc' = "validate"
    /\ manifest' = NewManifest
    /\ files' = <<>>
    /\ idx' = 0
    /\ organized' = 0
    /\ skipped' = 0
    /\ out' = <<>>
    /\ exitcode' = 0
    /\ input0' = input
    /\ disk0' = disk
    /\ dirs0' = dirs
    /\ mfile0' = mfile
    /\ loaded' = NewManifest
    /\ loads' = 0
    /\ saves' = 0
    /\ prev' = NoPrev
    /\ lost' = {}
    /\ last' = [dry |-> TRUE, out |-> out, organized |-> organized, skipped |-> skipped]
    /\ UNCHANGED <<fsVars, catVars, appVars, other>>

NextPreview ==
    \/ Next
    \/ RunForReal

SpecPreview == Init /\ [][NextPreview]_vars

(***************************************************************************)
(* The organizer on a second set of file names: a brand asset, a video and *)
(* its copy, and an icon whose name is taken in the output tree.           *)
(***************************************************************************)
ScenarioNames == {"logo.png", "clip.mp4", "clip_copy.mp4", "icon.svg"}

ScenarioPaths == {"icons/icon.svg", "icons/icon_1.svg", "icons/icon_2.svg"}

InitScenario ==
    /\ istatus = "dir"
    /\ input \in PartialFns(ScenarioNames, Contents, MaxObjects)
    /\ disk \in PartialFns(ScenarioPaths, Contents, MaxObjects - Cardinality(DOMAIN input))
    /\ dirs = UNION {{"", Parent(p)} : p \in DOMAIN disk}
    /\ mfile \in {NoFile("absent", FALSE)}
                 \cup {Dumped(PreDocument(h)) :
                         h \in PartialFns(ScenarioPaths, Contents,
                                          MaxObjects - Cardinality(DOMAIN input)
                                                     - Cardinality(DOMAIN disk))}
    /\ InitProcess
    /\ cname = ""
    /\ cresult = ""

SpecScenario == InitScenario /\ [][Next]_vars

(***************************************************************************)
(* The categorizer on its own: get_category applied to one file name.      *)
(***************************************************************************)
CatStems ==
    {"a", "Logo", "mylogotype", "FAVICON", ".hidden", "afromations_flag_pick",
     "afromations_flag_pick.gif", "logo_Afromations_Flag_Pick.gif"}

CatExts ==
    {CATEGORY_MAPPINGS[i][1] : i \in 1..Len(CATEGORY_MAPPINGS)}
        \cup {"", ".", ".PNG", ".Gif", ".xyz", ".tar.gz"}

CatNames == {stem \o ext : stem \in CatStems, ext \in CatExts}

InitCat ==
    /\ istatus = "missing"
    /\ input = [n \in {} |-> <<>>]
    /\ disk = [p \in {} |-> <<>>]
    /\ dirs = {}
    /\ mfile = NoFile("absent", FALSE)
    /\ InitProcess
    /\ cname \in CatNames
    /\ cresult = ""

Categorize ==
    /\ cresult = ""
    /\ cresult' = get_category(cname)
    /\ UNCHANGED <<fsVars, histVars, envVars, appVars, last, cname, run, pc, dry_run, manifest, files, idx,
                   organized, skipped, out, exitcode, loaded, loads, saves, prev>>

NextCat == Categorize

SpecCat == InitCat /\ [][NextCat]_vars

(***************************************************************************)
(* The clipping application (src/app_enhanced.py): one call of             *)
(* get_relevant_segments on a transcript.                                  *)
(***************************************************************************)
\* The longest transcript, in segments.
MaxSegments == 7

\* Everything of the organizer, which the other programs do not touch.
organizerVars ==
    <<fsVars, histVars, envVars, catVars, last, run, pc, dry_run, manifest, files,
      idx, organized, skipped, out, exitcode, loaded, loads, saves, prev>>

\* No organizer has run and nothing is on disk: the other programs start
\* from their module-level state.
InitApp ==
    /\ istatus = "missing"
    /\ input = [n \in {} |-> <<>>]
    /\ disk = [p \in {} |-> <<>>]
    /\ dirs = {}
    /\ mfile = NoFile("absent", FALSE)
    /\ InitProcess
    /\ cname = ""
    /\ cresult = ""

\* Values of the environment variable GROQ_API_KEY; 'groq-key' when unset.
ApiKeys == {"", "groq-key", "placeholder-key", "gsk_live"}

\* Config.is_api_configured()
is_api_configured(key) ==
    key # "" /\ key # "groq-key" /\ ~StartsWith(key, "placeholder")

\* What transcribe_video returns for a video of n segments: segment i runs
\* from second 10 * (i - 1) to second 10 * i - 1.
Transcript(n) == [i \in 1..n |-> [start |-> 10 * (i - 1), end |-> 10 * i - 1]]

\* How the HTTP exchange and the reading of its response can go, with the
\* exception each way raises inside the try block ("" for none).
\* KeyboardInterrupt is the user's Ctrl-C during the call.
ApiOutcomes ==
    [connection_error |-> "requests.ConnectionError",
     timeout          |-> "requests.Timeout",
     http_error       |-> "requests.HTTPError",
     body_not_json    |-> "ValueError",
     no_choices       |-> "KeyError",
     empty_choices    |-> "IndexError",
     not_a_literal    |-> "SyntaxError",
     not_a_dict       |-> "TypeError",
     no_conversations |-> "KeyError",
     interrupted      |-> "KeyboardInterrupt",
     ok               |-> ""]

\* The conversations a well-formed response can hold.
ApiReplies == {<<>>, <<[start |-> 0, end |-> 19]>>}

\* The subclasses of requests.exceptions.RequestException.
IsRequestException(exc) ==
    exc \in {"requests.ConnectionError", "requests.Timeout", "requests.HTTPError"}

\* Faulty variant: there is no second except clause.
IsException_RequestOnly(exc) == IsRequestException(exc)

\* The subclasses of Exception; KeyboardInterrupt is none.
IsException(exc) ==
    \/ IsRequestException(exc)
    \/ exc \in {"ValueError", "KeyError", "IndexError", "SyntaxError", "TypeError"}

\* get_relevant_segments_stubbed: the first three segments as one range when
\* there are three, and the next three as a second range when there are six.
get_relevant_segments_stubbed(transcript) ==
    (IF Len(transcript) > 0 /\ Len(transcript) >= 3
     THEN <<[start |-> transcript[1].start, end |-> transcript[3].end]>>
     ELSE <<>>)
    \o
    (IF Len(transcript) > 0 /\ Len(transcript) >= 6
     THEN <<[start |-> transcript[4].start, end |-> transcript[6].end]>>
     ELSE <<>>)

\* main() reaches step 2 with a transcript and calls get_relevant_segments.
CallSegments ==
    /\ seg.pc = "off"
    /\ \E key \in ApiKeys, n \in 0..MaxSegments :
          seg' = [seg EXCEPT !.pc = "called", !.key = key, !.transcript = Transcript(n)]
    /\ UNCHANGED <<organizerVars, web>>

\* if not Config.is_api_configured(): return the stub's result.
CheckConfigured ==
    /\ seg.pc = "called"
    /\ seg' = IF ~is_api_configured(seg.key)
              THEN [seg EXCEPT !.pc = "returned", !.stubbed = TRUE,
                               !.result = get_relevant_segments_stubbed(seg.transcript)]
              ELSE [seg EXCEPT !.pc = "request"]
    /\ UNCHANGED <<organizerVars, web>>

\* The try block: the request, the reading of the response, and the two
\* except clauses.
ApiRequest ==
    /\ seg.pc = "request"
    /\ \E outcome \in DOMAIN ApiOutcomes, reply \in ApiReplies :
          LET exc == ApiOutcomes[outcome]
          IN  seg' = IF exc = ""
                     THEN [seg EXCEPT !.pc = "returned", !.outcome = outcome,
                                      !.reply = reply, !.result = reply]
                     ELSE IF IsRequestException(exc)
                     THEN [seg EXCEPT !.pc = "returned", !.outcome = outcome, !.stubbed = TRUE,
                                      !.result = get_relevant_segments_stubbed(seg.transcript)]
                     ELSE IF IsException(exc)
                     THEN [seg EXCEPT !.pc = "returned", !.outcome = outcome, !.stubbed = TRUE,
                                      !.result = get_relevant_segments_stubbed(seg.transcript)]
                     ELSE [seg EXCEPT !.pc = "raised", !.outcome = outcome, !.raised = TRUE]
    /\ UNCHANGED <<organizerVars, web>>

NextSegments ==
    \/ CallSegments
    \/ CheckConfigured
    \/ ApiRequest

SpecSegments == InitApp /\ [][NextSegments]_vars

(***************************************************************************)
(* The web scaffold (src/web.py): the three module-level registries and    *)
(* the endpoints of the application.                                       *)
(***************************************************************************)
\* The latest reading of the server's clock.
MaxClock == 3

\* The number of values the model's 12-digit invite ids take.
DigestSize == 3

\* Bodies of POST /api/invite/request: well-formed and malformed addresses.
Emails == {"ann@x.io", "bob@x.io", "nobody"}
InviteNames == {"Ann", "Bob"}

\* Job ids: what secrets.token_hex(8) draws and what a client asks about.
JobIds == {"1f", "2e"}

\* EmailStr: one "@" with text on both sides; anything else is answered
\* 422 before the handler runs.
IsEmail(s) ==
    LET ats == {i \in 1..Len(s) : Char(s, i) = "@"}
    IN  Cardinality(ats) = 1 /\ \A i \in ats : 1 < i /\ i < Len(s)

\* sha256(email + utcnow().isoformat()).hexdigest()[:12]: a function of the
\* address and the clock reading with fewer values than arguments.
Alphabet == "abcdefghijklmnopqrstuvwxyz@."
HexDigits == "0123456789abcdef"

ByteOf(c) == CHOOSE i \in 1..Len(Alphabet) : Char(Alphabet, i) = c

RECURSIVE Digest(_)
Digest(s) == IF s = "" THEN 0 ELSE ByteOf(Char(s, 1)) + Digest(SubSeq(s, 2, Len(s)))

InviteId(email, now) == Char(HexDigits, ((Digest(email) + now) % DigestSize) + 1)

\* Faulty variant: a registry that keeps the newest entry only.
Stored_Evicting(registry, key, entry) == [k \in {key} |-> entry]

\* registry[key] = entry
Stored(registry, key, entry) ==
    [k \in DOMAIN registry \cup {key} |-> IF k = key THEN entry ELSE registry[k]]

Answer(endpoint, code, id, status) ==
    [endpoint |-> endpoint, code |-> code, id |-> id, status |-> status]

\* Time passes on the server.
Tick ==
    /\ web.clock < MaxClock
    /\ web' = [web EXCEPT !.clock = web.clock + 1]
    /\ UNCHANGED <<organizerVars, seg>>

\* GET /
home ==
    /\ web' = [web EXCEPT !.response = Answer("home", 200, "", "")]
    /\ UNCHANGED <<organizerVars, seg>>

\* GET /app
dashboard ==
    /\ web' = [web EXCEPT !.response = Answer("dashboard", 200, "", "")]
    /\ UNCHANGED <<organizerVars, seg>>

\* GET /pricing
pricing ==
    /\ web' = [web EXCEPT !.response = Answer("pricing", 200, "", "")]
    /\ UNCHANGED <<organizerVars, seg>>

\* GET /api/health
health_check ==
    /\ web' = [web EXCEPT !.response = Answer("health_check", 200, "", "healthy")]
    /\ UNCHANGED <<organizerVars, seg>>

\* POST /api/invite/request: the clock is read once for the id and once
\* more for created_at.
request_invite ==
    /\ \E email \in Emails, name \in InviteNames, later \in {web.clock, web.clock + 1} :
          IF ~IsEmail(email)
          THEN web' = [web EXCEPT !.response = Answer("request_invite", 422, "", "")]
          ELSE /\ later <= MaxClock
               /\ LET invite_id == InviteId(email, web.clock)
                      entry == [email |-> email, name |-> name, company |-> "None",
                                use_case |-> "None", status |-> "pending",
                                created_at |-> later]
                  IN  web' = [web EXCEPT
                                !.invites = Stored(web.invites, invite_id, entry),
                                !.clock = later,
                                !.response = Answer("request_invite", 200, invite_id, "")]
    /\ UNCHANGED <<organizerVars, seg>>

\* POST /api/clip
create_clip ==
    /\ \E job_id \in JobIds :
          web' = [web EXCEPT !.response = Answer("create_clip", 200, job_id, "queued")]
    /\ UNCHANGED <<organizerVars, seg>>

\* GET /api/jobs/{job_id}
get_job_status ==
    /\ \E job_id \in JobIds :
          web' = [web EXCEPT !.response = Answer("get_job_status", 200, job_id, "processing")]
    /\ UNCHANGED <<organizerVars, seg>>

NextWeb ==
    \/ Tick
    \/ home
    \/ dashboard
    \/ pricing
    \/ health_check
    \/ request_invite
    \/ create_clip
    \/ get_job_status

SpecWeb == InitApp /\ [][NextWeb]_vars

(***************************************************************************)
(* Properties.                                                             *)
(***************************************************************************)
\* The lines of kind k printed so far in the run.
Printed(k) == {i \in 1..Len(out) : out[i].kind = k}

\* No two entries of doc have the same content_hash.
DistinctHashes(doc) ==
    \A p, q \in DOMAIN doc.assets :
        p # q => doc.assets[p].content_hash # doc.assets[q].content_hash

\* C1: in a run that loaded an empty manifest, or one whose content_hash
\* values are pairwise distinct, the in-memory manifest never holds two
\* entries with the same content_hash, whatever files have been processed.
C1_UniqueContentHash == DistinctHashes(loaded) => DistinctHashes(manifest)

\* C1's case: a run that loaded a non-empty manifest has skipped a duplicate
\* and inserted a record.
C1_Witness ==
    /\ pc = "done"
    /\ ~dry_run
    /\ DOMAIN loaded.assets # {}
    /\ Printed("skip_duplicate") # {}
    /\ Printed("moved") # {}
    /\ Cardinality(DOMAIN manifest.assets) > Cardinality(DOMAIN loaded.assets)

\* The category the resolution order of the categorizer prescribes: name
\* patterns in table order, then the extension, then misc.
ExpectedCategory(name) ==
    LET lowered == Lower(name)
        ext == Lower(Suffix(name))
    IN  IF Contains(lowered, "afromations_flag_pick.gif") THEN "hero"
        ELSE IF Contains(lowered, "logo") THEN "brand"
        ELSE IF Contains(lowered, "favicon") THEN "brand"
        ELSE IF ext = ".gif" THEN "hero"
        ELSE IF ext \in {".png", ".jpg", ".jpeg", ".webp"} THEN "images"
        ELSE IF ext \in {".svg", ".ico"} THEN "icons"
        ELSE IF ext \in {".mp4", ".mov", ".avi", ".webm", ".mkv"} THEN "video"
        ELSE IF ext \in {".mp3", ".wav", ".m4a", ".ogg"} THEN "audio"
        ELSE IF ext \in {".pdf", ".txt", ".md"} THEN "documents"
        ELSE IF ext \in {".ttf", ".otf", ".woff", ".woff2"} THEN "fonts"
        ELSE IF ext \in {".psd", ".ai", ".sketch", ".fig"} THEN "design"
        ELSE "misc"

\* C10: get_category returns exactly one label of the fixed set, first match
\* wins: an override pattern found in the lowercased file name decides,
\* whatever the extension (hero-animation name, then logo, then favicon);
\* otherwise the lowercased extension's table entry; otherwise misc.
C10_CategoryFirstMatch ==
    cresult # "" => cresult \in Categories /\ cresult = ExpectedCategory(cname)

\* C10's case: a name holding an override pattern and an extension of the
\* table that maps elsewhere has been categorized by the pattern.
C10_Witness ==
    /\ cname = "Logo.mp4"
    /\ cresult = "brand"

\* C2 (as claimed): while files are processed, no key already in the
\* manifest is written again: every record in the manifest stays in it,
\* unchanged.
C2_RecordsNeverRewritten ==
    [][pc = "process" =>
          \A p \in DOMAIN manifest.assets :
              /\ p \in DOMAIN manifest'.assets
              /\ manifest'.assets[p] = manifest.assets[p]]_vars

\* The second run is a repetition: the first run was not a dry run, it
\* returned normally, and its input set was put back.
Repetition == pc = "done" /\ prev.ok /\ exitcode = 0

\* C3 (as claimed): the repetition of a run skips every non-system file as a
\* duplicate, moves nothing, and leaves the number of manifest entries as
\* it was after the first run.
C3_SecondRunSkipsAll ==
    Repetition =>
        /\ organized = 0
        /\ \A n \in DOMAIN input0 :
              ~IsSystemFile(n) =>
                  \E i \in Printed("skip_duplicate") : out[i].name = n
        /\ input = input0
        /\ disk = disk0
        /\ Cardinality(DOMAIN manifest.assets) = prev.count

\* The pairs of C4: two non-system input files of the run with the same
\* content, n1 sorted before n2, no third input file with that content and
\* no loaded manifest entry with its hash.
TwinFiles(n1, n2) ==
    /\ n1 \in DOMAIN input0 /\ n2 \in DOMAIN input0
    /\ StrLess(n1, n2)
    /\ ~IsSystemFile(n1) /\ ~IsSystemFile(n2)
    /\ input0[n1] = input0[n2]
    /\ \A n \in DOMAIN input0 \ {n1, n2} : input0[n] # input0[n1]
    /\ Duplicates(loaded, TaggedHash(compute_hash(input0[n1]))) = {}

\* C4: at the end of a non-dry run, of two input files with identical
\* content and different names whose hash no manifest entry had, the one
\* sorted first was moved and has a manifest record, and the other, and only
\* the other, was skipped as a duplicate of the first's record.
C4_SecondTwinSkipped ==
    (pc = "done" /\ ~dry_run /\ exitcode = 0) =>
        \A n1, n2 \in DOMAIN input0 :
            TwinFiles(n1, n2) =>
                \E i \in Printed("moved") :
                    /\ out[i].name = n1
                    /\ out[i].path \in DOMAIN manifest.assets
                    /\ manifest.assets[out[i].path].original_name = n1
                    /\ manifest.assets[out[i].path].content_hash
                          = TaggedHash(compute_hash(input0[n1]))
                    /\ \E j \in Printed("skip_duplicate") :
                          /\ i < j
                          /\ out[j].name = n2
                          /\ out[j].path = out[i].path
                    /\ \A j \in 1..Len(out) :
                          /\ out[j].kind = "skip_duplicate" => out[j].name # n1
                          /\ out[j].kind = "moved" => out[j].name # n2

\* C4's case: a non-dry run over two such files has ended.
C4_Witness ==
    /\ pc = "done" /\ ~dry_run /\ exitcode = 0
    /\ \E n1, n2 \in DOMAIN input0 : TwinFiles(n1, n2)

\* The step of C5: a non-dry organize_asset moves a file called name while
\* the file organized earlier under the same category and name, with other
\* content, is on disk at first and recorded there in the manifest.
SameNameStep(name, first) ==
    /\ pc = "process" /\ idx <= Len(files) /\ ~dry_run
    /\ name = files[idx]
    /\ organized' = organized + 1
    /\ first = RelativePath(get_category(name), name)
    /\ first \in DOMAIN disk
    /\ disk[first] # input[name]
    /\ first \in DOMAIN manifest.assets
    /\ manifest.assets[first].content_hash = TaggedHash(compute_hash(disk[first]))

\* The paths category/stem_k.suffix, k >= 1, for a file called name.
SuffixedPaths(name) ==
    {RelativePath(get_category(name), Stem(name) \o "_" \o Decimal(k) \o Suffix(name)) :
        k \in 1..(MaxObjects + MaxRuns)}

\* C5: when a file is organized whose category and name are those of a
\* file with other content organized before it, both are under the output
\* directory afterwards at distinct paths, the second with a numeric suffix
\* on its stem, and the manifest has one entry for each.
C5_CollisionKeepsBoth ==
    [][\A name \in Names, first \in DOMAIN disk :
          SameNameStep(name, first) =>
              \E second \in SuffixedPaths(name) :
                  /\ second # first
                  /\ second \notin DOMAIN disk
                  /\ {first, second} \subseteq DOMAIN disk'
                  /\ disk'[first] = disk[first]
                  /\ disk'[second] = input[name]
                  /\ {first, second} \subseteq DOMAIN manifest'.assets
                  /\ manifest'.assets[first] = manifest.assets[first]
                  /\ manifest'.assets[second].original_name = name
                  /\ manifest'.assets[second].content_hash
                        = TaggedHash(compute_hash(input[name]))]_vars

\* C5's case: a.png was moved to images/a_1.png while images/a.png, with
\* other content, was on disk and in the manifest that was loaded.
C5_Witness ==
    /\ "images/a.png" \in DOMAIN disk0 \cap DOMAIN loaded.assets
    /\ "images/a_1.png" \in DOMAIN disk \ DOMAIN disk0
    /\ disk["images/a_1.png"] # disk["images/a.png"]
    /\ \E i \in Printed("moved") :
          out[i].name = "a.png" /\ out[i].path = "images/a_1.png"

\* C6: a dry run changes nothing on disk: the input directory keeps its
\* files, no file or directory appears under the output directory, the
\* manifest file and its directory are as before; and once it has ended, a
\* would-be destination was reported for every input file that is neither a
\* system file nor a duplicate of a manifest entry.
C6_DryRunChangesNothing ==
    dry_run =>
        /\ input = input0
        /\ disk = disk0
        /\ dirs = dirs0
        /\ mfile = mfile0
        /\ (pc = "done" /\ exitcode = 0) =>
              \A n \in DOMAIN input0 :
                  (/\ ~IsSystemFile(n)
                   /\ Duplicates(loaded, TaggedHash(compute_hash(input0[n]))) = {})
                  => \E i \in Printed("would_move") :
                        /\ out[i].name = n
                        /\ Parent(out[i].path) \in Categories
                        /\ out[i].path \notin DOMAIN disk

\* C6's case: a dry run over an input directory with a file to organize and
\* a duplicate has ended.
C6_Witness ==
    /\ dry_run /\ pc = "done" /\ exitcode = 0
    /\ Printed("would_move") # {}
    /\ Printed("skip_duplicate") # {}

SummaryThenChecklist ==
    /\ Cardinality(Printed("summary")) = 1
    /\ Cardinality(Printed("FOUND") \cup Printed("MISSING")) = Len(required_assets)
    /\ \A i \in Printed("summary"), j \in Printed("FOUND") \cup Printed("MISSING") : i < j

C9_LoadOnceSaveOnce ==
    /\ loads <= 1
    /\ saves <= 1
    /\ pc \in {"list", "process", "save", "checklist"} => loads = 1
    /\ (pc = "done" /\ exitcode = 0) => loads = 1
    /\ pc \in {"validate", "load", "list", "process", "save"} => saves = 0
    /\ saves = 1 => idx = Len(files) + 1 /\ mfile = Dumped(manifest)
    /\ saves = 0 => mfile = mfile0
    /\ pc \in {"checklist", "done"} => (saves = 1 <=> (~dry_run /\ organized > 0))

\* C9's case: a non-dry run in which every file was skipped has ended, the
\* manifest file untouched.
C9_Witness ==
    /\ pc = "done" /\ ~dry_run /\ exitcode = 0
    /\ organized = 0
    /\ Printed("skip_duplicate") # {}
    /\ saves = 0

\* The keys of doc whose record has the hash of content.
RecordsOf(doc, content) ==
    {p \in DOMAIN doc.assets :
        doc.assets[p].content_hash = TaggedHash(compute_hash(content))}

\* A run was killed after it had moved files, its input was put back, and
\* the run after it was no dry run and ended normally.
RerunAfterKill == pc = "done" /\ exitcode = 0 /\ ~dry_run /\ lost # {}

\* C11 (as claimed): when a run is killed after it moved a file, the manifest
\* file has no entry with that file's hash; and when the file is supplied
\* again, the next run moves it to a path with a numeric suffix, so that two
\* files with its content are under the output directory and the manifest
\* has a record for the second one only.
C11_RerunKeepsUnrecordedTwin ==
    /\ (pc = "done" /\ exitcode = 130) =>
          \A f \in lost : RecordsOf(mfile.doc, disk[f.path]) = {}
    /\ RerunAfterKill =>
          \A f \in lost :
              \E i \in Printed("moved") :
                  /\ out[i].name = f.name
                  /\ out[i].path \in SuffixedPaths(f.name)
                  /\ out[i].path # f.path
                  /\ disk[out[i].path] = disk[f.path]
                  /\ RecordsOf(mfile.doc, disk[f.path]) = {out[i].path}

\* Both processes have ended after writing the manifest file, and each had
\* loaded it before the other wrote it.
BothSavedOverlapping ==
    /\ pc = "done" /\ saves = 1
    /\ other.pc = "done" /\ other.saved
    /\ other.early
    /\ other.seenloads = 1

\* The manifest file has no record equal to doc's record under path.
LacksRecord(doc, path) ==
    \/ path \notin DOMAIN mfile.doc.assets
    \/ mfile.doc.assets[path] # doc.assets[path]

\* C12: when two processes have both written the manifest file, each having
\* loaded it before the other wrote it, the file holds the document of the
\* one that wrote last, and the files the other one moved are in the output
\* tree without their records in the file.
C12_LastSaverWins ==
    BothSavedOverlapping =>
        IF saves > other.seensaves
        THEN /\ mfile = Dumped(manifest)
             /\ \A path \in other.moved :
                   path \in DOMAIN disk /\ LacksRecord(other.manifest, path)
        ELSE /\ mfile = Dumped(other.manifest)
             /\ \A i \in Printed("moved") :
                   out[i].path \in DOMAIN disk /\ LacksRecord(manifest, out[i].path)

\* C12's case: both processes moved a file and wrote the manifest file, the
\* second process last.
C12_Witness ==
    /\ BothSavedOverlapping
    /\ saves = other.seensaves
    /\ Printed("moved") # {}
    /\ other.moved # {}

\* The run started on logo.png, clip.mp4 and clip_copy.mp4, the two clips
\* with the same bytes and the logo with other bytes, with nothing in the
\* output tree and no manifest file.
LogoAndClips ==
    /\ DOMAIN input0 = {"logo.png", "clip.mp4", "clip_copy.mp4"}
    /\ input0["clip.mp4"] = input0["clip_copy.mp4"]
    /\ input0["logo.png"] # input0["clip.mp4"]
    /\ DOMAIN disk0 = {}
    /\ mfile0.kind = "absent"

\* C13: a non-dry run on logo.png, clip.mp4 and clip_copy.mp4 (bytes of
\* clip.mp4), from an empty output tree and no manifest file, moves logo.png
\* to brand/logo.png and clip.mp4 to video/clip.mp4, skips clip_copy.mp4 as a
\* duplicate of video/clip.mp4, and prints "2 organized, 1 skipped".
C13_LogoAndClips ==
    (pc = "done" /\ ~dry_run /\ LogoAndClips) =>
        /\ exitcode = 0
        /\ {<<out[i].name, out[i].path>> : i \in Printed("moved")}
              = {<<"logo.png", "brand/logo.png">>, <<"clip.mp4", "video/clip.mp4">>}
        /\ {<<out[i].name, out[i].path>> : i \in Printed("skip_duplicate")}
              = {<<"clip_copy.mp4", "video/clip.mp4">>}
        /\ Printed("skip_system") = {}
        /\ \E i \in Printed("summary") : out[i].name = "2" /\ out[i].path = "1"
        /\ DOMAIN disk = {"brand/logo.png", "video/clip.mp4"}
        /\ disk["brand/logo.png"] = input0["logo.png"]
        /\ disk["video/clip.mp4"] = input0["clip.mp4"]
        /\ DOMAIN input = {"clip_copy.mp4"}
        /\ DOMAIN mfile.doc.assets = {"brand/logo.png", "video/clip.mp4"}

\* C13's case: such a run has ended.
C13_Witness ==
    /\ pc = "done" /\ ~dry_run /\ LogoAndClips
    /\ organized = 2 /\ skipped = 1

\* The path category/stem_k.suffix for a file called name.
SuffixedPath(name, k) ==
    RelativePath(ExpectedCategory(name), Stem(name) \o "_" \o Decimal(k) \o Suffix(name))

\* C14: the path a file is organized at (moved to, or would be moved to in a
\* dry run) is category/name when the output tree has no file there, and
\* otherwise category/stem_k.suffix for the smallest k >= 1 with no file
\* there; icon.svg goes to icons/icon_1.svg when icons/icon.svg holds other
\* bytes and icons/icon_1.svg is free.
C14_SmallestFreeSuffix ==
    [][(pc = "process" /\ organized' = organized + 1) =>
          LET name == files[idx]
              path == out'[Len(out')].path
              base == RelativePath(ExpectedCategory(name), name)
          IN  /\ out'[Len(out')].name = name
              /\ IF base \notin DOMAIN disk
                 THEN path = base
                 ELSE \E k \in 1..(MaxObjects + MaxRuns) :
                        /\ path = SuffixedPath(name, k)
                        /\ path \notin DOMAIN disk
                        /\ \A j \in 1..(k - 1) : SuffixedPath(name, j) \in DOMAIN disk
              /\ (/\ name = "icon.svg"
                   /\ "icons/icon.svg" \in DOMAIN disk
                   /\ "icons/icon_1.svg" \notin DOMAIN disk)
                  => path = "icons/icon_1.svg"]_vars

\* C14's case: icon.svg was moved to icons/icon_1.svg while icons/icon.svg,
\* with other bytes, and icons/icon_2.svg were taken.
C14_Witness ==
    /\ \E i \in Printed("moved") :
          out[i].name = "icon.svg" /\ out[i].path = "icons/icon_1.svg"
    /\ {"icons/icon.svg", "icons/icon_2.svg"} \subseteq DOMAIN disk0
    /\ disk0["icons/icon.svg"] # input0["icon.svg"]

\* C15: a run whose input path is missing or is no directory ends at the
\* validation, with one error line and status 1: the manifest was not loaded,
\* no file was listed, hashed or moved, no directory was made and the
\* manifest file was not written.
C15_InvalidInputHaltsFirst ==
    (istatus # "dir" /\ run > 0 /\ pc # "validate") =>
        /\ pc = "done"
        /\ exitcode = 1
        /\ Len(out) = 1
        /\ out[1].kind = (IF istatus = "missing" THEN "error_missing" ELSE "error_not_dir")
        /\ loads = 0 /\ saves = 0
        /\ manifest = NewManifest
        /\ files = <<>> /\ idx = 0
        /\ organized = 0 /\ skipped = 0
        /\ input = input0 /\ disk = disk0 /\ dirs = dirs0 /\ mfile = mfile0

\* C15's case: a run on a missing input path has ended, with files in the
\* output tree and a manifest file that parses.
C15_Witness ==
    /\ pc = "done" /\ run > 0
    /\ istatus = "missing"
    /\ DOMAIN disk0 # {}
    /\ mfile0.kind = "json" /\ DOMAIN mfile0.doc.assets # {}
    /\ exitcode = 1

\* C16: a run whose manifest file does not parse ends at the load with a
\* traceback and status 1: no file was listed or processed, no input file
\* was moved, no directory was made, and the manifest file is as it was.
C16_BadManifestAbortsFirst ==
    (mfile0.kind = "garbage" /\ pc \in {"list", "process", "save", "checklist", "done"}) =>
        /\ pc = "done"
        /\ istatus = "dir" => /\ exitcode = 1
                              /\ loads = 1
                              /\ out = <<Ev("traceback", "", "")>>
        /\ saves = 0
        /\ files = <<>> /\ idx = 0
        /\ organized = 0 /\ skipped = 0
        /\ input = input0 /\ disk = disk0 /\ dirs = dirs0 /\ mfile = mfile0

\* C16's case: a run with a file to organize and a manifest file that does
\* not parse has ended.
C16_Witness ==
    /\ pc = "done" /\ istatus = "dir"
    /\ mfile0.kind = "garbage"
    /\ \E n \in DOMAIN input0 : ~IsSystemFile(n)
    /\ exitcode = 1

\* A name with a leading dot, or README.md, or .gitkeep.
SystemName(name) ==
    \/ Len(name) > 0 /\ SubSeq(name, 1, 1) = "."
    \/ name = "README.md"
    \/ name = ".gitkeep"

\* C17: the call of organize_asset on a file whose name starts with a dot or
\* is README.md or .gitkeep prints the system-file line and counts as
\* skipped, whatever the file's bytes and whatever the manifest holds, and
\* leaves the input directory, the output tree, the manifest in memory
\* and the manifest file as they were.
C17_SystemFileSkippedFirst ==
    [][(pc = "process" /\ idx <= Len(files) /\ SystemName(files[idx])) =>
          /\ out' = Append(out, Ev("skip_system", files[idx], ""))
          /\ skipped' = skipped + 1
          /\ organized' = organized
          /\ pc' = pc /\ exitcode' = exitcode
          /\ UNCHANGED <<input, disk, dirs, manifest, mfile>>]_vars

\* C17's case: README.md was skipped as a system file in a run whose
\* manifest had a record with README.md's hash when it was loaded.
C17_Witness ==
    /\ \E i \in Printed("skip_system") : out[i].name = "README.md"
    /\ "README.md" \in DOMAIN input0
    /\ RecordsOf(loaded, input0["README.md"]) # {}
    /\ pc = "done"

\* C18: the call of organize_asset on a file whose hash is the content_hash
\* of some manifest record counts as skipped, whatever the file's name and
\* category: the file stays in the input directory, no file or directory
\* is made in the output tree, and the manifest is unchanged; unless the name
\* is a system file's, the line printed names a record with that hash.
C18_DuplicateSkipped ==
    [][(/\ pc = "process" /\ idx <= Len(files)
        /\ RecordsOf(manifest, input[files[idx]]) # {}) =>
          /\ skipped' = skipped + 1
          /\ organized' = organized
          /\ UNCHANGED <<input, disk, dirs, manifest, mfile>>
          /\ Len(out') = Len(out) + 1
          /\ out'[Len(out')].name = files[idx]
          /\ IF SystemName(files[idx])
             THEN out'[Len(out')].kind = "skip_system"
             ELSE /\ out'[Len(out')].kind = "skip_duplicate"
                  /\ out'[Len(out')].path \in RecordsOf(manifest, input[files[idx]])]_vars

\* C18's case: in a non-dry run a file was skipped as a duplicate of a record
\* with another original name and another category.
C18_Witness ==
    /\ ~dry_run
    /\ \E i \in Printed("skip_duplicate") :
          /\ manifest.assets[out[i].path].original_name # out[i].name
          /\ manifest.assets[out[i].path].category # ExpectedCategory(out[i].name)
          /\ out[i].name \in DOMAIN input

\* C19: after a call of organize_asset that is no dry run and returns a path,
\* the file is no longer in the input directory, its bytes are in the
\* output tree at that path, and the manifest has a record under that path
\* with the file's name as original_name and "sha256:" and the digest of the
\* bytes the file had before the move as content_hash.
C19_MovedAndRecorded ==
    [][(pc = "process" /\ idx <= Len(files) /\ ~dry_run /\ organized' = organized + 1) =>
          LET name == files[idx]
              p == out'[Len(out')].path
          IN  /\ out'[Len(out')] = Ev("moved", name, p)
              /\ name \in DOMAIN input
              /\ name \notin DOMAIN input'
              /\ p \in DOMAIN disk'
              /\ disk'[p] = input[name]
              /\ p \in DOMAIN manifest'.assets
              /\ manifest'.assets[p].original_name = name
              /\ manifest'.assets[p].content_hash = TaggedHash(compute_hash(input[name]))]_vars

\* C19's case: a file was moved to a path with a numeric suffix and the
\* manifest has its record under that path.
C19_Witness ==
    \E i \in Printed("moved") :
        /\ out[i].path \in SuffixedPaths(out[i].name)
        /\ out[i].name \notin DOMAIN input
        /\ out[i].path \in DOMAIN disk
        /\ out[i].path \in DOMAIN manifest.assets
        /\ manifest.assets[out[i].path].original_name = out[i].name

\* part occurs in whole as a run of consecutive characters.
IsSubstring(part, whole) ==
    \E i \in 1..(Len(whole) - Len(part) + 1) :
        SubSeq(whole, i, i + Len(part) - 1) = part

\* C20: a run that printed the checklist printed one line for
\* afromations_flag_pick.gif, FOUND when some key of the manifest the run
\* holds in memory at its end has that name as a substring and MISSING
\* otherwise, and its exit status is 0 in both cases.
C20_ChecklistByKeySubstring ==
    (pc = "done" /\ Printed("FOUND") \cup Printed("MISSING") # {}) =>
        /\ Cardinality(Printed("FOUND") \cup Printed("MISSING")) = 1
        /\ \A i \in Printed("FOUND") \cup Printed("MISSING") :
              /\ out[i].name = "afromations_flag_pick.gif"
              /\ out[i].kind = "FOUND" <=>
                    \E key \in DOMAIN manifest.assets :
                        IsSubstring("afromations_flag_pick.gif", key)
        /\ exitcode = 0

\* C20's case: a run moved afromations_flag_pick.gif to a path with a
\* numeric suffix, reported the asset MISSING, and ended with status 0.
C20_Witness ==
    /\ pc = "done" /\ exitcode = 0
    /\ Printed("MISSING") # {}
    /\ \E i \in Printed("moved") :
          /\ out[i].name = "afromations_flag_pick.gif"
          /\ out[i].path = "hero/afromations_flag_pick_1.gif"

\* The lines organize_asset prints, one per call that returns.
IsCallLine(e) == e.kind \in {"skip_system", "skip_duplicate", "would_move", "moved"}

CallLines == SelectSeq(out, IsCallLine)

\* C21: once the input directory is listed, the list holds each file of the
\* directory once, in ascending name order; the calls of organize_asset made
\* so far are those for the files before the loop's position, one call per
\* file in the list's order, each with its one result line; and after the
\* loop every listed file has had its call.
C21_OneCallPerFileInOrder ==
    (pc \in {"process", "save", "checklist"} \/ (pc = "done" /\ idx > 0)) =>
        /\ {files[i] : i \in 1..Len(files)} = DOMAIN input0
        /\ \A i, j \in 1..Len(files) : i < j => StrLess(files[i], files[j])
        /\ Len(CallLines) = idx - 1
        /\ \A i \in 1..Len(CallLines) : CallLines[i].name = files[i]
        /\ pc # "process" => idx = Len(files) + 1

\* C21's case: a run over three files has ended, one of them skipped as a
\* system file, one moved and one skipped as a duplicate.
C21_Witness ==
    /\ pc = "done" /\ exitcode = 0
    /\ Len(files) = 3
    /\ Printed("skip_system") # {}
    /\ Printed("moved") # {}
    /\ Printed("skip_duplicate") # {}

\* The run is the real run started after a dry run, and has ended normally.
RealRunAfterPreview == pc = "done" /\ exitcode = 0 /\ last.dry

\* C22 (as claimed): a file the real run moves after a dry run on the same
\* directories is moved to the path the dry run printed for it.
C22_DryRunPredictsDestination ==
    RealRunAfterPreview =>
        \A i \in 1..Len(last.out) :
            last.out[i].kind = "would_move" =>
                \A j \in Printed("moved") :
                    out[j].name = last.out[i].name => out[j].path = last.out[i].path

\* C23 (as claimed): the real run after a dry run on the same directories
\* skips as duplicates the files the dry run printed as duplicates, and
\* counts as many files organized and as many skipped as the dry run did.
C23_DryRunPredictsSkips ==
    RealRunAfterPreview =>
        /\ {out[j].name : j \in Printed("skip_duplicate")}
              = {last.out[i].name :
                    i \in {k \in 1..Len(last.out) : last.out[k].kind = "skip_duplicate"}}
        /\ organized = last.organized
        /\ skipped = last.skipped

\* C24: at every moment of a run, every file that was in the output tree
\* when the run started is at its path with the bytes it had.
C24_OutputFilesKept ==
    \A p \in DOMAIN disk0 : p \in DOMAIN disk /\ disk[p] = disk0[p]

\* C24's case: a non-dry run has moved a file whose category and name were
\* those of a file with other bytes in the output tree.
C24_Witness ==
    /\ pc = "done" /\ ~dry_run
    /\ \E i \in Printed("moved") :
          LET first == RelativePath(ExpectedCategory(out[i].name), out[i].name)
          IN  /\ first \in DOMAIN disk0
              /\ first # out[i].path
              /\ disk0[first] # disk[out[i].path]

\* C25: when a non-dry run has ended normally, every path it moved a file to
\* is a key of the manifest, in memory and in the file, made of the record's
\* category, a slash and a file name; a file is in the output tree at that
\* path, and the hash of its bytes is the record's content_hash.
C25_InsertedRecordsMatchDisk ==
    (pc = "done" /\ exitcode = 0 /\ ~dry_run) =>
        \A i \in Printed("moved") :
            LET key == out[i].path
            IN  /\ key \in DOMAIN manifest.assets
                /\ key \in DOMAIN mfile.doc.assets
                /\ mfile.doc.assets[key] = manifest.assets[key]
                /\ manifest.assets[key].category \in Categories
                /\ \E filename \in {SubSeq(key, k, Len(key)) : k \in 1..Len(key)} :
                      /\ ~IsSubstring("/", filename)
                      /\ key = manifest.assets[key].category \o "/" \o filename
                /\ key \in DOMAIN disk
                /\ manifest.assets[key].content_hash = TaggedHash(compute_hash(disk[key]))

\* C25's case: a non-dry run that moved two files, one of them to a path
\* with a numeric suffix, has ended.
C25_Witness ==
    /\ pc = "done" /\ exitcode = 0 /\ ~dry_run
    /\ Cardinality(Printed("moved")) = 2
    /\ \E i \in Printed("moved") : out[i].path \in SuffixedPaths(out[i].name)

\* C26 (as claimed): a non-dry run that has moved a file called
\* afromations_flag_pick.gif and ended normally has printed the asset as
\* FOUND in its checklist.
C26_OrganizedRequiredAssetFound ==
    (/\ pc = "done" /\ exitcode = 0 /\ ~dry_run
     /\ \E i \in Printed("moved") : out[i].name = "afromations_flag_pick.gif") =>
        \E j \in Printed("FOUND") : out[j].name = "afromations_flag_pick.gif"

\* C27: while and after the files are processed, organized + skipped is the
\* number of files handled so far, and after the loop the number of files
\* found in the input directory; and a non-dry run that loaded a manifest
\* without entries and ended normally has as many manifest entries, in
\* memory and in the file, as it counted organized.
C27_EveryFileCountedOnce ==
    /\ (pc \in {"process", "save", "checklist"} \/ (pc = "done" /\ idx > 0)) =>
          /\ organized + skipped = idx - 1
          /\ pc # "process" => organized + skipped = Cardinality(DOMAIN input0)
    /\ (/\ pc = "done" /\ idx > 0 /\ exitcode = 0 /\ ~dry_run
        /\ DOMAIN loaded.assets = {}) =>
          /\ organized = Cardinality(DOMAIN manifest.assets)
          /\ organized > 0 => organized = Cardinality(DOMAIN mfile.doc.assets)

\* C27's case: a non-dry run that loaded a manifest without entries has
\* ended with two files organized and one skipped.
C27_Witness ==
    /\ pc = "done" /\ exitcode = 0 /\ ~dry_run
    /\ DOMAIN loaded.assets = {}
    /\ organized = 2 /\ skipped = 1
    /\ \E i \in Printed("summary") : out[i].name = "2" /\ out[i].path = "1"

\* C28: a call of save_manifest by the first process leaves the document in
\* memory with its generated_at set to the time of the call and its version
\* and assets as they were, and leaves a manifest file that holds that
\* document and nothing else, whatever the file held before.
C28_SaveReplacesFile ==
    [][saves' = saves + 1 =>
          /\ manifest'.generated_at = run
          /\ manifest'.version = manifest.version
          /\ manifest'.assets = manifest.assets
          /\ DOMAIN manifest' = DOMAIN manifest
          /\ mfile' = [kind |-> "json", doc |-> manifest', parent |-> TRUE]]_vars

\* C28's case: the first process has saved after the second one, and a record
\* the second one had written to the file is not in the file any more.
C28_Witness ==
    /\ saves = 1
    /\ other.saved
    /\ saves > other.seensaves
    /\ \E path \in other.moved :
          /\ path \in DOMAIN other.manifest.assets
          /\ path \notin DOMAIN mfile.doc.assets

\* The call met one of the failures of the hosted API: no key configured,
\* a request that failed, or a response that could not be read.
ApiFailed ==
    /\ seg.pc \in {"returned", "raised"}
    /\ \/ seg.key \in {"", "groq-key", "placeholder-key"}
       \/ seg.outcome \in {"connection_error", "timeout", "http_error"}
       \/ seg.outcome \in {"body_not_json", "no_choices", "empty_choices",
                            "not_a_literal", "not_a_dict", "no_conversations"}

\* C29: a call of get_relevant_segments that met a failure of the hosted API
\* has returned, not raised, and its result is the stub's: no range for a
\* transcript of fewer than 3 segments, the range from the start of segment
\* 0 to the end of segment 2 for 3 to 5 segments, and that range and the one
\* from the start of segment 3 to the end of segment 5 for 6 or more.
C29_ApiFailureFallsBackToStub ==
    ApiFailed =>
        LET t == seg.transcript
            n == Len(seg.transcript)
        IN  /\ seg.pc = "returned"
            /\ ~seg.raised
            /\ n < 3 => seg.result = <<>>
            /\ (3 <= n /\ n <= 5) =>
                  seg.result = <<[start |-> t[1].start, end |-> t[3].end]>>
            /\ n >= 6 =>
                  seg.result = <<[start |-> t[1].start, end |-> t[3].end],
                                 [start |-> t[4].start, end |-> t[6].end]>>

\* C29's case: with a key configured, the response of the API could not be
\* read, and the call returned two ranges for a transcript of 7 segments.
C29_Witness ==
    /\ seg.pc = "returned"
    /\ seg.key = "gsk_live"
    /\ seg.outcome = "not_a_literal"
    /\ Len(seg.transcript) = 7
    /\ Len(seg.result) = 2

\* C30: in the web scaffold the sessions and users registries stay empty;
\* no request takes a key out of the invites registry or leaves an entry
\* whose status is not 'pending', and only request_invite changes the
\* registry.
C30_RegistriesOnlyGrowPending ==
    [][/\ web'.sessions = {}
       /\ web'.users = {}
       /\ DOMAIN web.invites \subseteq DOMAIN web'.invites
       /\ \A i \in DOMAIN web'.invites : web'.invites[i].status = "pending"
       /\ web'.invites # web.invites =>
             web'.response.endpoint = "request_invite" /\ web'.response.code = 200]_vars

\* C30's case: two invites were requested and another endpoint has answered
\* since; both entries are in the registry.
C30_Witness ==
    /\ Cardinality(DOMAIN web.invites) >= 2
    /\ web.response.endpoint = "get_job_status"
    /\ \E i, j \in DOMAIN web.invites : web.invites[i].email # web.invites[j].email

====
